---- MODULE Spec2Model ----
(***************************************************************************)
(* Model of the registry-creds controller (aws_credentials.go): the main   *)
(* loop, controller.process(), the two token providers, the secret         *)
(* materialisation and the per-namespace secret / service-account upsert,  *)
(* run against a cluster store whose calls may fail.                       *)
(***************************************************************************)
EXTENDS Integers, Sequences, FiniteSets, TLC

(* ------------------------------ bounds -------------------------------- *)

\* most objects (registry secrets and image-pull-secret references) the user
\* namespaces hold before the controller first runs
MaxPreexisting == 2

\* most authorization entries an ECR response carries
MaxAuthData == 1

(* ----------------------- configuration (flags) ------------------------ *)

argAWSSecretName == "awsecr-cred"

argGCRSecretName == "gcr-secret"

argGCRURL == "https://gcr.io"

\* fmt.Sprintf templates, cut into literal chunks and %s verbs
dockerCfgTemplate ==
    << "{\"", "%s", "\":{\"username\":\"oauth2accesstoken\",\"password\":\"", "%s",
       "\",\"email\":\"none\"}}" >>

dockerJSONTemplate ==
    << "{\"auths\":{\"", "%s", "\":{\"auth\":\"", "%s", "\",\"email\":\"none\"}}}" >>

(* --------------------------- environment ------------------------------ *)

\* what Namespaces().List returns, in the order the API server lists them
NamespaceList == << "default", "kube-system", "team-a" >>

Namespaces == { NamespaceList[i] : i \in 1..Len(NamespaceList) }

\* access tokens the providers hand out
Tokens == { "tokenA", "tokenB" }

\* proxy endpoints the ECR provider hands out
ProxyEndpoints == { "https://123.dkr.ecr.us-east-1.amazonaws.com" }

\* names an image-pull-secret reference may carry before the controller runs
RefNames == { "other-reg", argGCRSecretName }

NoSecret == [ none |-> "secret" ]

NoServiceAccount == [ none |-> "serviceaccount" ]

\* the service account process() reads and writes in every namespace
DefaultAccount == "default"

\* what the cluster holds besides the objects of the controller: a secret of
\* a workload, a second service account, and the token secret every service
\* account mounts
OtherSecretName == "db-password"

OtherSecret ==
    [ Type |-> "Opaque", Data |-> [ key |-> "password", value |-> << "hunter2" >> ] ]

OtherAccountName == "builder"

AccountNames == { DefaultAccount, OtherAccountName }

TokenRefs(account) == << [ Name |-> "token-of-" \o account ] >>

OtherAccount ==
    [ Name |-> OtherAccountName, Secrets |-> TokenRefs(OtherAccountName),
      ImagePullSecrets |-> << [ Name |-> "other-reg" ] >> ]

\* a service account named DefaultAccount nobody has given a reference yet
NewDefaultAccount ==
    [ Name |-> DefaultAccount, Secrets |-> TokenRefs(DefaultAccount),
      ImagePullSecrets |-> << >> ]

NoRec == [ none |-> "reconciliation" ]

NoToken == [ none |-> "token" ]

NoInputs == [ none |-> "inputs" ]

\* the absent values above are records, as the values they stand in for are

SeqsUpTo(S, n) == UNION { [1..k -> S] : k \in 0..n }

(* --------------------------- pure functions --------------------------- *)

\* fmt.Sprintf with %s verbs only: each verb takes the next argument
RECURSIVE Sprintf(_, _)
Sprintf(template, args) ==
    IF template = << >> THEN << >>
    ELSE IF Head(template) = "%s"
         THEN << Head(args) >> \o Sprintf(Tail(template), Tail(args))
         ELSE << Head(template) >> \o Sprintf(Tail(template), args)

\* a slip in the argument order of Sprintf: the token lands where the endpoint
\* belongs
generateSecretObjSwapped(token, endpoint, isJSONCfg, secretName) ==
    IF isJSONCfg
    THEN [ Name |-> secretName,
           Data |-> [ key |-> ".dockerconfigjson",
                      value |-> Sprintf(dockerJSONTemplate, << token, endpoint >>) ],
           Type |-> "kubernetes.io/dockerconfigjson" ]
    ELSE [ Name |-> secretName,
           Data |-> [ key |-> ".dockercfg",
                      value |-> Sprintf(dockerCfgTemplate, << token, endpoint >>) ],
           Type |-> "kubernetes.io/dockercfg" ]

generateSecretObj(token, endpoint, isJSONCfg, secretName) ==
    IF isJSONCfg
    THEN [ Name |-> secretName,
           Data |-> [ key |-> ".dockerconfigjson",
                      value |-> Sprintf(dockerJSONTemplate, << endpoint, token >>) ],
           Type |-> "kubernetes.io/dockerconfigjson" ]
    ELSE [ Name |-> secretName,
           Data |-> [ key |-> ".dockercfg",
                      value |-> Sprintf(dockerCfgTemplate, << endpoint, token >>) ],
           Type |-> "kubernetes.io/dockercfg" ]

EmptyAuthToken == [ AccessToken |-> "", Endpoint |-> "" ]

\* what the GCR token source may answer
GCRResponses ==
    [ sourceErr : BOOLEAN, tokenErr : BOOLEAN, AccessToken : Tokens,
      Valid : BOOLEAN, Type : { "Bearer", "MAC" } ]

\* what ecr.GetAuthorizationToken may answer
ECRResponses ==
    [ err : BOOLEAN,
      AuthorizationData :
          SeqsUpTo([ AuthorizationToken : Tokens, ProxyEndpoint : ProxyEndpoints ],
                   MaxAuthData) ]

getGCRAuthorizationKey(resp) ==
    IF resp.sourceErr THEN [ panic |-> FALSE, err |-> TRUE, token |-> EmptyAuthToken ]
    ELSE IF resp.tokenErr THEN [ panic |-> FALSE, err |-> TRUE, token |-> EmptyAuthToken ]
    ELSE IF ~resp.Valid THEN [ panic |-> FALSE, err |-> TRUE, token |-> EmptyAuthToken ]
    ELSE IF resp.Type # "Bearer"
         THEN [ panic |-> FALSE, err |-> TRUE, token |-> EmptyAuthToken ]
    ELSE [ panic |-> FALSE, err |-> FALSE,
           token |-> [ AccessToken |-> resp.AccessToken, Endpoint |-> argGCRURL ] ]

\* resp.AuthorizationData[0] on an empty slice is an index-out-of-range panic
getECRAuthorizationKey(resp) ==
    IF resp.err THEN [ panic |-> FALSE, err |-> TRUE, token |-> EmptyAuthToken ]
    ELSE IF Len(resp.AuthorizationData) = 0
         THEN [ panic |-> TRUE, err |-> FALSE, token |-> EmptyAuthToken ]
    ELSE [ panic |-> FALSE, err |-> FALSE,
           token |-> [ AccessToken |-> resp.AuthorizationData[1].AuthorizationToken,
                       Endpoint |-> resp.AuthorizationData[1].ProxyEndpoint ] ]

secretGenerators ==
    << [ TokenGenFxn |-> "getGCRAuthorizationKey", IsJSONCfg |-> FALSE,
         SecretName |-> argGCRSecretName ],
       [ TokenGenFxn |-> "getECRAuthorizationKey", IsJSONCfg |-> TRUE,
         SecretName |-> argAWSSecretName ] >>

Generators == 1..Len(secretGenerators)

SecretNames == { secretGenerators[g].SecretName : g \in Generators }

\* the answers the provider behind a generator may give
ProviderResponses(fxn) ==
    IF fxn = "getGCRAuthorizationKey" THEN GCRResponses ELSE ECRResponses

\* secretGenerator.TokenGenFxn()
TokenGenFxn(fxn, resp) ==
    IF fxn = "getGCRAuthorizationKey"
    THEN getGCRAuthorizationKey(resp)
    ELSE getECRAuthorizationKey(resp)

\* the error of TokenGenFxn() left unchecked
FetchFailedIgnored(r) == FALSE

\* if err != nil after TokenGenFxn()
FetchFailed(r) == r.err

\* no namespace is passed over
SkipNamespaceNever(name) == FALSE

\* the namespace the loop passes over
SkipNamespace(name) == name = "kube-system"

\* index of the first reference named name at or after i, 0 when there is none
RECURSIVE FindImagePullSecret(_, _, _)
FindImagePullSecret(list, name, i) ==
    IF i > Len(list) THEN 0
    ELSE IF list[i].Name = name THEN i
    ELSE FindImagePullSecret(list, name, i + 1)

\* the scan without its found flag: the reference is appended every time
UpsertImagePullSecretAlwaysAppends(list, name) == Append(list, [ Name |-> name ])

\* the scan putting the new reference in front of the list
UpsertImagePullSecretPrepends(list, name) ==
    LET i == FindImagePullSecret(list, name, 1)
    IN  IF i # 0
        THEN [ list EXCEPT ![i] = [ Name |-> name ] ]
        ELSE << [ Name |-> name ] >> \o list

\* the scan of serviceAccount.ImagePullSecrets: replace the first match in
\* place and stop, append when nothing matched
UpsertImagePullSecret(list, name) ==
    LET i == FindImagePullSecret(list, name, 1)
    IN  IF i # 0
        THEN [ list EXCEPT ![i] = [ Name |-> name ] ]
        ELSE Append(list, [ Name |-> name ])

\* number of references named name
CountRefs(list, name) == Cardinality({ i \in 1..Len(list) : list[i].Name = name })

(* ------------------------- the cluster store -------------------------- *)

\* Secrets(ns).Get(name): an error when the secret is absent or the call fails
SecretsGet(store, ns, name, fail) ==
    [ err |-> fail \/ store[ns][name] = NoSecret ]

\* Secrets(ns).Create(obj): refused when a secret of that name exists
SecretsCreate(store, ns, obj, fail) ==
    IF fail \/ store[ns][obj.Name] # NoSecret
    THEN [ err |-> TRUE, store |-> store ]
    ELSE [ err |-> FALSE,
           store |-> [ store EXCEPT ![ns][obj.Name] =
                           [ Type |-> obj.Type, Data |-> obj.Data ] ] ]

\* an update done as delete and create, the create lost when the call fails
SecretsUpdateDeletesFirst(store, ns, obj, fail) ==
    IF store[ns][obj.Name] = NoSecret
    THEN [ err |-> TRUE, store |-> store ]
    ELSE IF fail
    THEN [ err |-> TRUE, store |-> [ store EXCEPT ![ns][obj.Name] = NoSecret ] ]
    ELSE [ err |-> FALSE,
           store |-> [ store EXCEPT ![ns][obj.Name] =
                           [ Type |-> obj.Type, Data |-> obj.Data ] ] ]

\* Secrets(ns).Update(obj): refused when no secret of that name exists
SecretsUpdate(store, ns, obj, fail) ==
    IF fail \/ store[ns][obj.Name] = NoSecret
    THEN [ err |-> TRUE, store |-> store ]
    ELSE [ err |-> FALSE,
           store |-> [ store EXCEPT ![ns][obj.Name] =
                           [ Type |-> obj.Type, Data |-> obj.Data ] ] ]

\* ServiceAccounts(ns).Get(name)
ServiceAccountsGet(store, ns, name, fail) ==
    IF fail \/ store[ns][name] = NoServiceAccount
    THEN [ err |-> TRUE, obj |-> NoServiceAccount ]
    ELSE [ err |-> FALSE, obj |-> store[ns][name] ]

\* an update that stores the object under every name of the namespace
ServiceAccountsUpdateAllAccounts(store, ns, obj, fail) ==
    IF fail \/ store[ns][obj.Name] = NoServiceAccount
    THEN [ err |-> TRUE, store |-> store ]
    ELSE [ err |-> FALSE,
           store |-> [ store EXCEPT ![ns] = [ a \in DOMAIN @ |-> obj ] ] ]

\* ServiceAccounts(ns).Update(obj): the object is stored under its own name
ServiceAccountsUpdate(store, ns, obj, fail) ==
    IF fail \/ store[ns][obj.Name] = NoServiceAccount
    THEN [ err |-> TRUE, store |-> store ]
    ELSE [ err |-> FALSE, store |-> [ store EXCEPT ![ns][obj.Name] = obj ] ]

(* ------------------------------- state -------------------------------- *)

VARIABLES
    secrets,          \* store: namespace -> secret name -> secret or NoSecret
    serviceAccounts,  \* store: namespace -> account name -> service account
    tick,             \* main: ticks waiting in the channel of time.Tick (0 or 1)
    pc,               \* where the single goroutine stands
    runKind,          \* main: "initial" for the call before the loop, else "tick"
    gi,               \* process: index of the generator being handled
    ni,               \* process: index into namespaces.Items
    newSecret,        \* process: the secret built from the fetched token
    namespaces,       \* process: the namespaces listed for this generator
    getErr,           \* process: whether Secrets().Get returned an error
    serviceAccount,   \* process: the service account fetched, mutated in place
    err,              \* what process() returned
    trace,            \* history: provider and store calls of the current run
    tokens,           \* history: the token fetched per generator in this run
    secrets0,         \* history: the secrets when the run started
    sa0,              \* history: the service accounts when the run started
    lastRec,          \* history: per namespace, the last completed reconciliation
    lost,             \* history: whether a tick found the channel full and was dropped
    inputs            \* the answers a whole run is computed from (RunProcess)

store == << secrets, serviceAccounts >>

locals == << gi, ni, newSecret, namespaces, getErr, serviceAccount >>

history == << trace, tokens, secrets0, sa0, lastRec >>

\* what only the specifications of single claims use
aux == << lost, inputs >>

vars == << secrets, serviceAccounts, tick, pc, runKind, aux, gi, ni, newSecret,
           namespaces, getErr, serviceAccount, err, trace, tokens, secrets0, sa0,
           lastRec, lost, inputs >>

\* a secret left by an earlier life of the controller, holding an old token
StaleSecret(g) ==
    LET s == generateSecretObj("stale-token", argGCRURL,
                               secretGenerators[g].IsJSONCfg,
                               secretGenerators[g].SecretName)
    IN  [ Type |-> s.Type, Data |-> s.Data ]

InitialSecrets ==
    { f \in [ SecretNames -> { NoSecret } \cup { StaleSecret(g) : g \in Generators } ] :
        \A g \in Generators :
            f[secretGenerators[g].SecretName] \in { NoSecret, StaleSecret(g) } }

InitialServiceAccounts ==
    { NoServiceAccount } \cup
    [ Name : { DefaultAccount }, Secrets : { TokenRefs(DefaultAccount) },
      ImagePullSecrets : SeqsUpTo([ Name : RefNames ], MaxPreexisting) ]

\* the namespaces of the cluster users deploy into
UserNamespaces == Namespaces \ { "kube-system" }

RECURSIVE Sum(_, _)
Sum(f, S) ==
    IF S = {} THEN 0
    ELSE LET x == CHOOSE y \in S : TRUE IN f[x] + Sum(f, S \ {x})

\* how many registry secrets and references a cluster state holds
Preexisting(secs, sas) ==
    Sum([ n \in DOMAIN secs |->
            Cardinality({ name \in SecretNames : secs[n][name] # NoSecret }) +
            (IF sas[n] = NoServiceAccount THEN 0 ELSE Len(sas[n].ImagePullSecrets)) ],
        DOMAIN secs)

\* the secrets of a namespace: those of the controller and the workload's
ClusterSecrets(regs) ==
    [ name \in SecretNames \cup { OtherSecretName } |->
        IF name \in SecretNames THEN regs[name] ELSE OtherSecret ]

NoRegistrySecrets == [ name \in SecretNames |-> NoSecret ]

\* the service accounts of a namespace
ClusterAccounts(default) ==
    [ a \in AccountNames |-> IF a = DefaultAccount THEN default ELSE OtherAccount ]

NoLocals ==
    /\ gi = 0
    /\ ni = 0
    /\ newSecret = NoSecret
    /\ namespaces = << >>
    /\ getErr = FALSE
    /\ serviceAccount = NoServiceAccount

Init ==
    /\ \E secs \in [ UserNamespaces -> InitialSecrets ],
          sas \in [ UserNamespaces -> InitialServiceAccounts ] :
          /\ Preexisting(secs, sas) <= MaxPreexisting
          /\ secrets = [ n \in Namespaces |->
                           IF n \in UserNamespaces THEN ClusterSecrets(secs[n])
                           ELSE ClusterSecrets(NoRegistrySecrets) ]
          /\ serviceAccounts = [ n \in Namespaces |->
                           IF n \in UserNamespaces THEN ClusterAccounts(sas[n])
                           ELSE ClusterAccounts(NewDefaultAccount) ]
    /\ tick = 0
    /\ pc = "start"
    /\ runKind = "initial"
    /\ NoLocals
    /\ err = FALSE
    /\ trace = << >>
    /\ tokens = [ g \in Generators |-> NoToken ]
    /\ secrets0 = secrets
    /\ sa0 = serviceAccounts
    /\ lastRec = [ n \in Namespaces |-> NoRec ]
    /\ lost = "none"
    /\ inputs = NoInputs

(* ------------------------ controller.process() ------------------------ *)

\* a call as the history records it; empty marks a provider answer that came
\* without an error and without any authorization entry
Call(op, ns, ok) == [ op |-> op, gen |-> gi, ns |-> ns, ok |-> ok, empty |-> FALSE ]

EmptyAnswer(fxn, resp) ==
    /\ fxn = "getECRAuthorizationKey"
    /\ ~resp.err
    /\ Len(resp.AuthorizationData) = 0

\* entry of process(): the generator loop starts at the first generator
BeginProcess(kind) ==
    /\ pc' = "fetch"
    /\ runKind' = kind
    /\ gi' = 1
    /\ ni' = 0
    /\ newSecret' = NoSecret
    /\ namespaces' = << >>
    /\ getErr' = FALSE
    /\ serviceAccount' = NoServiceAccount
    /\ err' = FALSE
    /\ trace' = << >>
    /\ tokens' = [ g \in Generators |-> NoToken ]
    /\ secrets0' = secrets
    /\ sa0' = serviceAccounts
    /\ UNCHANGED << secrets, serviceAccounts, lastRec, aux >>

\* return e: the locals of process() are gone
Return(e) ==
    /\ pc' = "returned"
    /\ err' = e
    /\ gi' = 0
    /\ ni' = 0
    /\ newSecret' = NoSecret
    /\ namespaces' = << >>
    /\ getErr' = FALSE
    /\ serviceAccount' = NoServiceAccount

\* an unrecovered panic ends the whole program
Panic ==
    /\ pc' = "panicked"
    /\ UNCHANGED << err, locals >>

Namespace == namespaces[ni]

SecretName == secretGenerators[gi].SecretName

\* newToken, err := secretGenerator.TokenGenFxn(); newSecret := generateSecretObj(...)
FetchToken ==
    /\ pc = "fetch"
    /\ \E resp \in ProviderResponses(secretGenerators[gi].TokenGenFxn) :
          LET r == TokenGenFxn(secretGenerators[gi].TokenGenFxn, resp)
          IN  /\ trace' = Append(trace,
                                  [ Call("fetch", "", ~r.panic /\ ~r.err) EXCEPT
                                      !.empty = EmptyAnswer(secretGenerators[gi].TokenGenFxn,
                                                            resp) ])
              /\ IF r.panic THEN Panic /\ UNCHANGED tokens
                 ELSE IF FetchFailed(r) THEN Return(TRUE) /\ UNCHANGED tokens
                 ELSE /\ tokens' = [ tokens EXCEPT ![gi] = r.token ]
                      /\ newSecret' = generateSecretObj(r.token.AccessToken,
                                                        r.token.Endpoint,
                                                        secretGenerators[gi].IsJSONCfg,
                                                        secretGenerators[gi].SecretName)
                      /\ pc' = "list"
                      /\ UNCHANGED << err, gi, ni, namespaces, getErr, serviceAccount >>
    /\ UNCHANGED << store, tick, runKind, aux, secrets0, sa0, lastRec >>

\* namespaces, err := c.kubeClient.Namespaces().List(...)
ListNamespaces ==
    /\ pc = "list"
    /\ \E fail \in BOOLEAN :
          /\ trace' = Append(trace, Call("list", "", ~fail))
          /\ IF fail THEN Return(TRUE)
             ELSE /\ namespaces' = NamespaceList
                  /\ ni' = 1
                  /\ pc' = "nsloop"
                  /\ UNCHANGED << err, gi, newSecret, getErr, serviceAccount >>
    /\ UNCHANGED << store, tick, runKind, aux, tokens, secrets0, sa0, lastRec >>

\* the namespace loop meets kube-system: continue
NamespaceContinue ==
    /\ pc = "nsloop"
    /\ ni <= Len(namespaces)
    /\ SkipNamespace(Namespace)
    /\ ni' = ni + 1
    /\ UNCHANGED << store, tick, pc, runKind, aux, gi, newSecret, namespaces, getErr,
                    serviceAccount, err, history >>

\* the namespace loop enters the body for any other namespace
NamespaceEnter ==
    /\ pc = "nsloop"
    /\ ni <= Len(namespaces)
    /\ ~SkipNamespace(Namespace)
    /\ pc' = "secretGet"
    /\ UNCHANGED << store, tick, runKind, aux, locals, err, history >>

\* the namespace loop is over: on to the next generator
NextGenerator ==
    /\ pc = "nsloop"
    /\ ni > Len(namespaces)
    /\ gi < Len(secretGenerators)
    /\ gi' = gi + 1
    /\ pc' = "fetch"
    /\ ni' = 0
    /\ newSecret' = NoSecret
    /\ namespaces' = << >>
    /\ UNCHANGED << store, tick, runKind, aux, getErr, serviceAccount, err, history >>

\* both loops are over: return nil
ReturnNil ==
    /\ pc = "nsloop"
    /\ ni > Len(namespaces)
    /\ gi = Len(secretGenerators)
    /\ Return(FALSE)
    /\ UNCHANGED << store, tick, runKind, aux, history >>

\* _, err := c.kubeClient.Secrets(ns).Get(secretGenerator.SecretName)
SecretGet ==
    /\ pc = "secretGet"
    /\ \E fail \in BOOLEAN :
          LET r == SecretsGet(secrets, Namespace, SecretName, fail)
          IN  /\ getErr' = r.err
              /\ trace' = Append(trace, Call("secrets.get", Namespace, ~r.err))
    /\ pc' = "secretPut"
    /\ UNCHANGED << store, tick, runKind, aux, gi, ni, newSecret, namespaces,
                    serviceAccount, err, tokens, secrets0, sa0, lastRec >>

\* a create whose error is dropped
SecretCreateIgnoresError ==
    /\ pc = "secretPut"
    /\ getErr
    /\ \E fail \in BOOLEAN :
          LET r == SecretsCreate(secrets, Namespace, newSecret, fail)
          IN  /\ trace' = Append(trace, Call("secrets.create", Namespace, ~r.err))
              /\ secrets' = r.store
              /\ pc' = "saGet" /\ UNCHANGED << err, locals >>
    /\ UNCHANGED << serviceAccounts, tick, runKind, aux, tokens, secrets0, sa0, lastRec >>

\* err != nil: c.kubeClient.Secrets(ns).Create(newSecret)
SecretCreate ==
    /\ pc = "secretPut"
    /\ getErr
    /\ \E fail \in BOOLEAN :
          LET r == SecretsCreate(secrets, Namespace, newSecret, fail)
          IN  /\ trace' = Append(trace, Call("secrets.create", Namespace, ~r.err))
              /\ secrets' = r.store
              /\ IF r.err THEN Return(TRUE)
                 ELSE pc' = "saGet" /\ UNCHANGED << err, locals >>
    /\ UNCHANGED << serviceAccounts, tick, runKind, aux, tokens, secrets0, sa0, lastRec >>

\* err == nil: c.kubeClient.Secrets(ns).Update(newSecret)
SecretUpdate ==
    /\ pc = "secretPut"
    /\ ~getErr
    /\ \E fail \in BOOLEAN :
          LET r == SecretsUpdate(secrets, Namespace, newSecret, fail)
          IN  /\ trace' = Append(trace, Call("secrets.update", Namespace, ~r.err))
              /\ secrets' = r.store
              /\ IF r.err THEN Return(TRUE)
                 ELSE pc' = "saGet" /\ UNCHANGED << err, locals >>
    /\ UNCHANGED << serviceAccounts, tick, runKind, aux, tokens, secrets0, sa0, lastRec >>

\* the Get of the service account with "continue" where the code returns
ServiceAccountGetContinues ==
    /\ pc = "saGet"
    /\ \E fail \in BOOLEAN :
          LET r == ServiceAccountsGet(serviceAccounts, Namespace, DefaultAccount, fail)
          IN  /\ trace' = Append(trace, Call("serviceaccounts.get", Namespace, ~r.err))
              /\ IF r.err
                 THEN /\ ni' = ni + 1
                      /\ pc' = "nsloop"
                      /\ UNCHANGED << err, gi, newSecret, namespaces, getErr,
                                      serviceAccount >>
                 ELSE /\ serviceAccount' = r.obj
                      /\ pc' = "saUpdate"
                      /\ UNCHANGED << err, gi, ni, newSecret, namespaces, getErr >>
    /\ UNCHANGED << store, tick, runKind, aux, tokens, secrets0, sa0, lastRec >>

\* serviceAccount, err := c.kubeClient.ServiceAccounts(ns).Get("default")
ServiceAccountGet ==
    /\ pc = "saGet"
    /\ \E fail \in BOOLEAN :
          LET r == ServiceAccountsGet(serviceAccounts, Namespace, DefaultAccount, fail)
          IN  /\ trace' = Append(trace, Call("serviceaccounts.get", Namespace, ~r.err))
              /\ IF r.err THEN Return(TRUE)
                 ELSE /\ serviceAccount' = r.obj
                      /\ pc' = "saUpdate"
                      /\ UNCHANGED << err, gi, ni, newSecret, namespaces, getErr >>
    /\ UNCHANGED << store, tick, runKind, aux, tokens, secrets0, sa0, lastRec >>

\* the record of a reconciliation of namespace n that has just completed
Completed(n, before, after) ==
    LET same == /\ lastRec[n] # NoRec
                /\ lastRec[n].gen = gi
                /\ lastRec[n].secret = newSecret
    IN  [ gen |-> gi,
          secret |-> newSecret,
          reps |-> IF same THEN 2 ELSE 1,
          saBefore |-> before,
          first |-> IF same THEN lastRec[n].first
                    ELSE [ saBefore |-> before, saAfter |-> after,
                           secAfter |-> secrets[n][newSecret.Name] ] ]

\* an update whose error is logged and the loop goes on
ServiceAccountUpdateContinues ==
    /\ pc = "saUpdate"
    /\ \E fail \in BOOLEAN :
          LET obj == [ serviceAccount EXCEPT !.ImagePullSecrets =
                           UpsertImagePullSecret(serviceAccount.ImagePullSecrets,
                                                 SecretName) ]
              r == ServiceAccountsUpdate(serviceAccounts, Namespace, obj, fail)
          IN  /\ trace' = Append(trace, Call("serviceaccounts.update", Namespace, ~r.err))
              /\ serviceAccounts' = r.store
              /\ serviceAccount' = obj
              /\ ni' = ni + 1
              /\ pc' = "nsloop"
              /\ lastRec' = IF r.err THEN lastRec
                            ELSE [ lastRec EXCEPT ![Namespace] =
                                     Completed(Namespace,
                                               serviceAccount.ImagePullSecrets,
                                               obj.ImagePullSecrets) ]
              /\ UNCHANGED << err, gi, newSecret, namespaces, getErr >>
    /\ UNCHANGED << secrets, tick, runKind, aux, tokens, secrets0, sa0 >>

\* the scan of ImagePullSecrets, then ServiceAccounts(ns).Update(serviceAccount)
ServiceAccountUpdate ==
    /\ pc = "saUpdate"
    /\ \E fail \in BOOLEAN :
          LET obj == [ serviceAccount EXCEPT !.ImagePullSecrets =
                           UpsertImagePullSecret(serviceAccount.ImagePullSecrets,
                                                 SecretName) ]
              r == ServiceAccountsUpdate(serviceAccounts, Namespace, obj, fail)
          IN  /\ trace' = Append(trace, Call("serviceaccounts.update", Namespace, ~r.err))
              /\ serviceAccounts' = r.store
              /\ IF r.err THEN Return(TRUE) /\ UNCHANGED lastRec
                 ELSE /\ serviceAccount' = obj
                      /\ ni' = ni + 1
                      /\ pc' = "nsloop"
                      /\ lastRec' = [ lastRec EXCEPT ![Namespace] =
                                          Completed(Namespace,
                                                    serviceAccount.ImagePullSecrets,
                                                    obj.ImagePullSecrets) ]
                      /\ UNCHANGED << err, gi, newSecret, namespaces, getErr >>
    /\ UNCHANGED << secrets, tick, runKind, aux, tokens, secrets0, sa0 >>

(* ------------------------------- main() ------------------------------- *)

\* "Process once now": c.process(), its result dropped
InitialRun ==
    /\ pc = "start"
    /\ BeginProcess("initial")
    /\ UNCHANGED tick

\* the initial call has returned: enter the for/select loop
AfterInitialRun ==
    /\ pc = "returned"
    /\ runKind = "initial"
    /\ pc' = "select"
    /\ UNCHANGED << store, tick, runKind, aux, locals, err, history >>

\* a goroutine per tick: the run starts wherever the previous one stands
ReceiveTickAnytime ==
    /\ pc \notin { "start", "exited", "panicked" }
    /\ tick > 0
    /\ tick' = tick - 1
    /\ BeginProcess("tick")

\* a receive that leaves the tick in the channel
ReceiveTickKeepsTick ==
    /\ pc = "select"
    /\ tick > 0
    /\ tick' = tick
    /\ BeginProcess("tick")

\* case <-tick: c.process()
ReceiveTick ==
    /\ pc = "select"
    /\ tick > 0
    /\ tick' = tick - 1
    /\ BeginProcess("tick")

\* err == nil after a tick's run: back to the select
AfterTickRun ==
    /\ pc = "returned"
    /\ runKind = "tick"
    /\ ~err
    /\ pc' = "select"
    /\ UNCHANGED << store, tick, runKind, aux, locals, err, history >>

\* err != nil after a tick's run: log.Fatalf exits the program
Fatal ==
    /\ pc = "returned"
    /\ runKind = "tick"
    /\ err
    /\ pc' = "exited"
    /\ UNCHANGED << store, tick, runKind, aux, locals, err, history >>

\* the runtime timer fires: the channel of time.Tick holds one tick, a tick
\* that finds it full is dropped
TimerFires ==
    /\ pc \notin { "exited", "panicked" }
    /\ tick' = 1
    /\ tick = 0
    /\ UNCHANGED << store, pc, runKind, aux, locals, err, history >>

\* the timer fires while a tick waits in the channel: the new tick is dropped;
\* lost keeps whether that happened during a run of process() or between runs
TickDropped ==
    /\ pc \notin { "exited", "panicked" }
    /\ tick = 1
    /\ lost' = IF pc \notin { "start", "select" } THEN "running"
               ELSE IF lost = "none" THEN "idle" ELSE lost
    /\ UNCHANGED << store, tick, pc, runKind, inputs, locals, err, history >>

\* the steps of the one goroutine of the program
Controller ==
    \/ InitialRun
    \/ FetchToken
    \/ ListNamespaces
    \/ NamespaceContinue
    \/ NamespaceEnter
    \/ NextGenerator
    \/ ReturnNil
    \/ SecretGet
    \/ SecretCreate
    \/ SecretUpdate
    \/ ServiceAccountGet
    \/ ServiceAccountUpdate
    \/ AfterInitialRun
    \/ ReceiveTick
    \/ AfterTickRun
    \/ Fatal

Next ==
    \/ Controller
    \/ TimerFires

Spec == Init /\ [][Next]_vars

\* the program with the dropped ticks recorded, every call of the goroutine
\* returning and the goroutine going on as long as it can
NextTimer ==
    \/ Controller
    \/ TimerFires
    \/ TickDropped

\* a cluster nothing has been written to yet
InitTimer ==
    /\ Init
    /\ secrets = [ n \in Namespaces |-> ClusterSecrets(NoRegistrySecrets) ]
    /\ serviceAccounts = [ n \in Namespaces |-> ClusterAccounts(NewDefaultAccount) ]

SpecTimer == InitTimer /\ [][NextTimer]_vars /\ WF_vars(Controller)

(* ------------------------- notions of the claims ---------------------- *)

Last(seq) == seq[Len(seq)]

\* process() has returned nil
RunSucceeded == pc = "returned" /\ ~err

\* the run is over: process() has returned or the program has died in it
RunOver == pc \in { "returned", "select", "exited", "panicked" } /\ trace # << >>

\* the stored secret carries the payload of section 6 for this token
Encodes(secret, g, token) ==
    IF secretGenerators[g].IsJSONCfg
    THEN /\ secret.Type = "kubernetes.io/dockerconfigjson"
         /\ secret.Data.key = ".dockerconfigjson"
         /\ secret.Data.value =
                << "{\"auths\":{\"", token.Endpoint, "\":{\"auth\":\"",
                   token.AccessToken, "\",\"email\":\"none\"}}}" >>
    ELSE /\ secret.Type = "kubernetes.io/dockercfg"
         /\ secret.Data.key = ".dockercfg"
         /\ secret.Data.value =
                << "{\"", token.Endpoint,
                   "\":{\"username\":\"oauth2accesstoken\",\"password\":\"",
                   token.AccessToken, "\",\"email\":\"none\"}}" >>

\* the calls of the current run that changed the store
Writes ==
    { k \in 1..Len(trace) :
        /\ trace[k].op \in { "secrets.create", "secrets.update",
                             "serviceaccounts.update" }
        /\ trace[k].ok }

\* the token fetches of the current run that failed
FailedFetches == { k \in 1..Len(trace) : trace[k].op = "fetch" /\ ~trace[k].ok }

\* the run is over and a token provider failed in it
ProviderFailed == RunOver /\ FailedFetches # {}

Refs(n) == serviceAccounts[n][DefaultAccount].ImagePullSecrets

(* -------------------------------- claims ------------------------------ *)

\* C1: after a run of process() that returns success, every listed namespace
\* other than kube-system holds, for each generator, a secret named
\* secretName whose payload encodes the token fetched in that run.
C1_SecretsHoldFetchedToken ==
    RunSucceeded =>
        \A i \in 1..Len(NamespaceList), g \in Generators :
            NamespaceList[i] # "kube-system" =>
                LET secret == secrets[NamespaceList[i]][secretGenerators[g].SecretName]
                IN  /\ tokens[g] # NoToken
                    /\ secret # NoSecret
                    /\ Encodes(secret, g, tokens[g])

\* a tick's run succeeded with a token other than the one a secret held
C1_Witness ==
    /\ RunSucceeded
    /\ runKind = "tick"
    /\ tokens[1].AccessToken = "tokenB"
    /\ secrets0["team-a"][argGCRSecretName] # NoSecret
    /\ secrets0["team-a"][argGCRSecretName] # secrets["team-a"][argGCRSecretName]

\* C2 as stated: after a successful run the default service account of every
\* namespace other than kube-system lists exactly one reference named
\* secretName, whatever the list held before (duplicates collapsed).
C2_ExactlyOneReference ==
    RunSucceeded =>
        \A n \in Namespaces \ { "kube-system" }, g \in Generators :
            CountRefs(Refs(n), secretGenerators[g].SecretName) = 1

\* C2 amended: after a successful run the list holds at least one reference
\* named secretName: exactly one when the list held at most one at the start
\* of the run, and as many as it held at the start otherwise (duplicates stay).
C2_OneReferenceUnlessDuplicated ==
    RunSucceeded =>
        \A n \in Namespaces \ { "kube-system" }, g \in Generators :
            LET name == secretGenerators[g].SecretName
                c0 == CountRefs(sa0[n][DefaultAccount].ImagePullSecrets, name)
            IN  /\ sa0[n][DefaultAccount] # NoServiceAccount
                /\ CountRefs(Refs(n), name) = IF c0 = 0 THEN 1 ELSE c0

\* a run succeeded where one list started with the name twice and another
\* started without it
C2_Witness ==
    /\ RunSucceeded
    /\ \E n \in Namespaces : CountRefs(sa0[n][DefaultAccount].ImagePullSecrets, argGCRSecretName) = 2
    /\ \E n \in Namespaces \ { "kube-system" } :
          CountRefs(sa0[n][DefaultAccount].ImagePullSecrets, argGCRSecretName) = 0

\* C3 as stated: when a token provider fails during a run, nothing in the
\* store was created or updated in that run: the store is as at its start.
C3_ProviderFailureLeavesStore ==
    ProviderFailed =>
        /\ Writes = {}
        /\ secrets = secrets0
        /\ serviceAccounts = sa0

\* C3 amended: when the token provider of a generator fails, no write was
\* made for that generator or a later one: their secrets and the number of
\* their references are as at the start of the run, and when it is the first
\* generator's provider the whole store is as at the start of the run.
C3_ProviderFailureWritesNothingMore ==
    ProviderFailed =>
        \A f \in FailedFetches :
            LET failed == trace[f].gen
            IN  /\ \A k \in Writes : trace[k].gen < failed
                /\ \A g \in Generators, n \in Namespaces :
                      g >= failed =>
                          LET name == secretGenerators[g].SecretName
                          IN  /\ secrets[n][name] = secrets0[n][name]
                              /\ sa0[n][DefaultAccount] # NoServiceAccount =>
                                    CountRefs(Refs(n), name) =
                                        CountRefs(sa0[n][DefaultAccount].ImagePullSecrets, name)
                /\ failed = 1 => secrets = secrets0 /\ serviceAccounts = sa0

\* the second provider failed after the first generator's writes
C3_Witness ==
    /\ ProviderFailed
    /\ Last(trace).op = "fetch"
    /\ Last(trace).gen = 2
    /\ Writes # {}
    /\ secrets # secrets0

\* C4: when the ECR call succeeds with zero authorization entries, the run
\* ends by returning an error (it does not crash), and no secret or service
\* account was touched in that run.
C4_EmptyAnswerReturnsError ==
    (RunOver /\ \E k \in 1..Len(trace) : trace[k].empty) =>
        /\ pc # "panicked"
        /\ err
        /\ Writes = {}

\* C5: process() never issues a secret or service-account call against
\* kube-system, whose secrets and service account therefore stay as they were.
C5_KubeSystemUntouched ==
    /\ \A k \in 1..Len(trace) : trace[k].ns # "kube-system"
    /\ secrets["kube-system"] = ClusterSecrets(NoRegistrySecrets)
    /\ serviceAccounts["kube-system"] = ClusterAccounts(NewDefaultAccount)

\* the loop has passed kube-system and called the store for the namespace
\* listed after it, for the second generator too
C5_Witness ==
    /\ pc = "saUpdate"
    /\ gi = 2
    /\ Namespace = "team-a"
    /\ \E k \in 1..Len(trace) : trace[k].ns = "default" /\ trace[k].gen = 2

\* the reconciliation of a namespace has just completed: the namespace
JustCompleted ==
    /\ pc = "nsloop"
    /\ ni > 1
    /\ lastRec[namespaces[ni - 1]] # NoRec
    /\ namespaces[ni - 1] # "kube-system"

Reconciled == namespaces[ni - 1]

\* C6 as stated: reconciling a namespace twice in succession with the same
\* secret content leaves exactly one reference named secretName, the list
\* not grown by the second call, and the secret as the first call left it.
C6_TwiceLeavesOneReference ==
    (JustCompleted /\ lastRec[Reconciled].reps = 2) =>
        /\ CountRefs(Refs(Reconciled), SecretName) = 1
        /\ Len(Refs(Reconciled)) = Len(lastRec[Reconciled].first.saAfter)
        /\ secrets[Reconciled][SecretName] = lastRec[Reconciled].first.secAfter

\* C6 amended: the second call leaves the list exactly as the first call
\* left it (no growth) and the secret's type and data as the first call left
\* them; the list holds exactly one reference named secretName when it held
\* at most one before the first call (references already duplicated stay).
C6_TwiceChangesNothing ==
    (JustCompleted /\ lastRec[Reconciled].reps = 2) =>
        LET first == lastRec[Reconciled].first
        IN  /\ Refs(Reconciled) = first.saAfter
            /\ CountRefs(first.saBefore, SecretName) <= 1 =>
                  CountRefs(Refs(Reconciled), SecretName) = 1
            /\ secrets[Reconciled][SecretName] = first.secAfter
            /\ secrets[Reconciled][SecretName] =
                  [ Type |-> newSecret.Type, Data |-> newSecret.Data ]

\* the second of two reconciliations in succession has completed, on a list
\* to which the first one had appended the reference
C6_Witness ==
    /\ JustCompleted
    /\ lastRec[Reconciled].reps = 2
    /\ CountRefs(lastRec[Reconciled].first.saBefore, SecretName) = 0
    /\ Len(lastRec[Reconciled].first.saBefore) = 1

\* C7: the upsert of the reference keeps length and order when the list has
\* an entry named secretName (replaced in place), appends one reference named
\* secretName at the end otherwise, and keeps every entry of another name at
\* its position; [other-reg] becomes [other-reg, gcr-secret].
C7_UpsertReference ==
    JustCompleted =>
        LET old == lastRec[Reconciled].saBefore
            new == Refs(Reconciled)
        IN  /\ (\E i \in 1..Len(old) : old[i].Name = SecretName) =>
                  /\ Len(new) = Len(old)
                  /\ \A i \in 1..Len(old) : new[i].Name = old[i].Name
            /\ (\A i \in 1..Len(old) : old[i].Name # SecretName) =>
                  /\ Len(new) = Len(old) + 1
                  /\ new[Len(new)] = [ Name |-> SecretName ]
            /\ \A i \in 1..Len(old) : old[i].Name # SecretName => new[i] = old[i]
            /\ (old = << [ Name |-> "other-reg" ] >> /\ SecretName = "gcr-secret") =>
                  new = << [ Name |-> "other-reg" ], [ Name |-> "gcr-secret" ] >>

\* [other-reg] has become [other-reg, gcr-secret]
C7_Witness ==
    /\ JustCompleted
    /\ SecretName = "gcr-secret"
    /\ lastRec[Reconciled].saBefore = << [ Name |-> "other-reg" ] >>
    /\ Refs(Reconciled) = << [ Name |-> "other-reg" ], [ Name |-> "gcr-secret" ] >>

\* C8: when a generator's token fetch fails, the run returns failure at once:
\* the failed fetch is the last call of the run, nothing is listed or written
\* for that generator and the provider of a later generator is never called.
C8_FetchFailureReturnsAtOnce ==
    \A f \in FailedFetches :
        /\ f = Len(trace)
        /\ pc \in { "returned", "select", "exited" }
        /\ err

\* the calls of the current run that make the reconciliation of a namespace fail
StoreFailures ==
    { k \in 1..Len(trace) :
        /\ trace[k].op \in { "secrets.create", "secrets.update",
                             "serviceaccounts.get", "serviceaccounts.update" }
        /\ ~trace[k].ok }

\* position of a namespace in the listed order
Position(n) == CHOOSE i \in 1..Len(NamespaceList) : NamespaceList[i] = n

\* C9: when the reconciliation of a namespace fails, the run is aborted at
\* once: the failed call is the last of the run, no call went to a namespace
\* later in the list or to a later generator, and process() returns the error.
C9_NamespaceFailureAbortsRun ==
    \A f \in StoreFailures :
        /\ f = Len(trace)
        /\ pc \in { "returned", "select", "exited" }
        /\ err
        /\ \A k \in 1..Len(trace) :
              /\ trace[k].gen <= trace[f].gen
              /\ (trace[k].gen = trace[f].gen /\ trace[k].ns # "") =>
                    Position(trace[k].ns) <= Position(trace[f].ns)

\* the first generator failed on the service account of the first namespace
\* listed, with a namespace and a generator still to come
C9_Witness ==
    /\ pc = "returned"
    /\ err
    /\ Last(trace).op = "serviceaccounts.get"
    /\ Last(trace).ns = NamespaceList[1]
    /\ Last(trace).gen = 1

\* C10: a failure of the initial run does not terminate the process, a
\* failure of a tick's run does.
C10_OnlyTickFailureIsFatal ==
    /\ runKind = "initial" => pc \notin { "exited", "panicked" }
    /\ (runKind = "tick" /\ err) => pc \in { "returned", "exited" }
    /\ pc = "exited" => runKind = "tick" /\ err

(* ------------------------------- C11 ----------------------------------- *)

\* a step that starts a run of process()
RunStarts == pc \in { "start", "select" } /\ pc' = "fetch"

Terminated == pc \in { "exited", "panicked" }

\* C11 as stated, in the case it names: no tick that fires while a run is
\* executing is lost
C11_NoTickLostDuringRun == lost # "running"

\* the first run starts from the start of main() and takes no tick, and it
\* is the only run that is not a tick's
InitialRunTakesNoTick ==
    [][ /\ (pc = "start" /\ pc' # "start")
            => RunStarts /\ runKind' = "initial" /\ tick' = tick
        /\ (pc # "start") => (pc' # "start")
        /\ (RunStarts /\ pc = "select") => runKind' = "tick" ]_vars

\* a tick leaves the channel exactly when a run starts from the select
OneRunPerReceivedTick ==
    [][ (tick' < tick) <=> (RunStarts /\ pc = "select") ]_vars

\* a tick is dropped only when another one waits in the channel
DroppedOnlyWhenFull ==
    [][ (lost' # lost) => (tick = 1 /\ tick' = 1) ]_vars

\* a waiting tick is received unless the program ends first
WaitingTickReceived == (tick = 1) ~> (tick = 0 \/ Terminated)

\* C11 (amended): the first run starts at startup and takes no tick; every
\* later run takes one tick out of the channel; the channel holds one tick,
\* which is eventually received by a run unless the program ends first, and
\* a tick is lost only if it fires while another one waits
C11_OneRunPerTickInChannel ==
    /\ InitialRunTakesNoTick
    /\ OneRunPerReceivedTick
    /\ DroppedOnlyWhenFull
    /\ WaitingTickReceived

\* a tick's run is under way after a tick was dropped during a run, and the
\* next tick waits
C11_Witness ==
    /\ runKind = "tick"
    /\ pc = "list"
    /\ lost = "running"
    /\ tick = 1

(* ------------------------------- C12 ----------------------------------- *)

\* the place of a call in the order of process(): per generator the fetch,
\* the list, and per namespace get, create or update, get and update of the
\* service account
OpRank(op) ==
    CASE op = "fetch" -> 1
      [] op = "list" -> 2
      [] op = "secrets.get" -> 3
      [] op \in { "secrets.create", "secrets.update" } -> 4
      [] op = "serviceaccounts.get" -> 5
      [] op = "serviceaccounts.update" -> 6

CallBefore(a, b) ==
    LET pa == IF a.ns = "" THEN 0 ELSE Position(a.ns)
        pb == IF b.ns = "" THEN 0 ELSE Position(b.ns)
    IN  \/ a.gen < b.gen
        \/ a.gen = b.gen /\ pa < pb
        \/ a.gen = b.gen /\ pa = pb /\ OpRank(a.op) < OpRank(b.op)

\* the calls of a run follow the order of the generators, within a
\* generator the order of the namespace list, within a namespace the order
\* of the loop body
TraceInListOrder ==
    \A i \in 1..(Len(trace) - 1) : CallBefore(trace[i], trace[i + 1])

\* a run starts only from the start of main() or from the select, that is
\* when no run is under way
RunStartsWhenNoneRuns ==
    [][ (tick' < tick \/ (trace' = << >> /\ trace # << >>) \/ (pc = "start" /\ pc' # "start"))
            => (RunStarts /\ gi' = 1 /\ ni' = 0) ]_vars

\* within a run the two loops only move forward
LoopsMoveForward ==
    [][ (pc \notin { "start", "select" } /\ pc' \notin { "returned", "select", "exited", "panicked" })
            => \/ gi' = gi /\ ni' >= ni
               \/ gi' = gi + 1 /\ ni' = 0 /\ ni > Len(namespaces) ]_vars

\* C12: runs never overlap (a run starts only after the previous one has
\* returned), and within a run the generators and, per generator, the
\* namespaces are handled one after the other in list order.
C12_RunsAndLoopsSequential ==
    /\ []TraceInListOrder
    /\ RunStartsWhenNoneRuns
    /\ LoopsMoveForward

\* a tick's run, started after the first run returned, has gone through the
\* first generator and reached the second namespace of the second one
C12_Witness ==
    /\ runKind = "tick"
    /\ gi = 2
    /\ pc = "saGet"
    /\ Namespace = "team-a"
    /\ Len(trace) > 10

(* ------------------------------- C14 ----------------------------------- *)

\* the secret a call of the trace is about was in the store when the run
\* started; no call before the secret step of its namespace writes it
ExistedAtGet(c) == secrets0[c.ns][secretGenerators[c.gen].SecretName] # NoSecret

SecretLookups == { i \in 1..Len(trace) : trace[i].op = "secrets.get" }

\* C14: the secret step follows the lookup: not found, the secret is
\* created; found, it is updated; on any other error of the lookup the error
\* is propagated and neither create nor update is attempted.
C14_PutFollowsLookup ==
    \A i \in SecretLookups :
        /\ (trace[i].ok /\ i < Len(trace)) => trace[i + 1].op = "secrets.update"
        /\ (~trace[i].ok /\ ~ExistedAtGet(trace[i]) /\ i < Len(trace))
               => trace[i + 1].op = "secrets.create"
        /\ (~trace[i].ok /\ ExistedAtGet(trace[i])) => i = Len(trace)

(* ------------------------------- C16 ----------------------------------- *)

SecretKeys(secs) ==
    { << n, name >> \in Namespaces \X SecretNames : secs[n][name] # NoSecret }

\* C16: the controller never deletes a secret: no step takes a key out of
\* the secrets of the store, and the secrets change only in a successful
\* create or update.
C16_NoSecretDeleted ==
    [][ /\ SecretKeys(secrets) \subseteq SecretKeys(secrets')
        /\ (secrets' # secrets) =>
               /\ trace' = Append(trace, Last(trace'))
               /\ Last(trace').op \in { "secrets.create", "secrets.update" }
               /\ Last(trace').ok ]_vars

\* a run that updated a secret already there and created one, and then
\* failed, has ended the program
C16_Witness ==
    /\ pc = "exited"
    /\ \E i \in 1..Len(trace) : trace[i].op = "secrets.update" /\ trace[i].ok
    /\ \E i \in 1..Len(trace) : trace[i].op = "secrets.create" /\ trace[i].ok
    /\ ~Last(trace).ok

(* ------------------------------- C17 ----------------------------------- *)

\* the calls of the current run that write a service account
AccountWrites ==
    { i \in 1..Len(trace) : trace[i].op = "serviceaccounts.update" }

\* a create or update of the secret of the same generator in the same
\* namespace has succeeded earlier in the run
SecretWrittenBefore(i) ==
    \E j \in 1..(i - 1) :
        /\ trace[j].op \in { "secrets.create", "secrets.update" }
        /\ trace[j].ok
        /\ trace[j].ns = trace[i].ns
        /\ trace[j].gen = trace[i].gen

\* references named name held by the service account of namespace n
RefsNamed(accounts, n, name) ==
    IF accounts[n][DefaultAccount] = NoServiceAccount THEN 0
    ELSE CountRefs(accounts[n][DefaultAccount].ImagePullSecrets, name)

\* a step that adds a reference adds it for a secret that is in the store
AddedReferenceHasSecret ==
    [][ \A n \in Namespaces : \A name \in SecretNames \cup RefNames :
            RefsNamed(serviceAccounts', n, name) > RefsNamed(serviceAccounts, n, name)
                => /\ name \in SecretNames
                   /\ secrets[n][name] # NoSecret
                   /\ secrets'[n][name] # NoSecret ]_vars

\* C17: the service account is written with a reference named secretName
\* only after the create or update of that secret has succeeded in the same
\* namespace and run; so a reference the controller adds never points to a
\* secret that is not in the store.
C17_ReferenceAfterSecret ==
    /\ [](\A i \in AccountWrites : SecretWrittenBefore(i))
    /\ AddedReferenceHasSecret

\* the run has created the secret of a namespace that had neither the secret
\* nor a reference to it, and the service account now holds the reference
C17_Witness ==
    /\ pc = "nsloop"
    /\ gi = 1
    /\ ni = 2
    /\ secrets0["default"][argGCRSecretName] = NoSecret
    /\ RefsNamed(sa0, "default", argGCRSecretName) = 0
    /\ RefsNamed(serviceAccounts, "default", argGCRSecretName) = 1
    /\ Last(trace).op = "serviceaccounts.update"

(* ------------------------------- C18 ----------------------------------- *)

\* the image pull secrets of a list after the generators 1..h have
\* reconciled its service account
RECURSIVE RefsAfter(_, _)
RefsAfter(list, h) ==
    IF h = 0 THEN list
    ELSE UpsertImagePullSecret(RefsAfter(list, h - 1),
                               secretGenerators[h].SecretName)

\* the service account of namespace n as the generators 1..h of this run
\* have left it
AccountAfter(n, h) ==
    IF sa0[n][DefaultAccount] = NoServiceAccount THEN NoServiceAccount
    ELSE [ sa0[n][DefaultAccount] EXCEPT !.ImagePullSecrets = RefsAfter(@, h) ]

\* C18: when a run is aborted at namespace k for a generator, nothing is
\* rolled back: the namespaces before k (other than kube-system) hold the
\* new secret and the service account with the reference, the namespaces
\* after k are as they were for that generator, and when the failure is in
\* the service account step the secret of k is the new one already.
C18_PartialFailureShape ==
    RunOver =>
        \A f \in StoreFailures :
            LET g == trace[f].gen
                k == trace[f].ns
                name == secretGenerators[g].SecretName
            IN  \A n \in UserNamespaces :
                    /\ Position(n) < Position(k) =>
                           /\ Encodes(secrets[n][name], g, tokens[g])
                           /\ serviceAccounts[n][DefaultAccount] = AccountAfter(n, g)
                           /\ CountRefs(Refs(n), name) >= 1
                    /\ Position(n) > Position(k) =>
                           /\ secrets[n][name] = secrets0[n][name]
                           /\ serviceAccounts[n][DefaultAccount] = AccountAfter(n, g - 1)
                    /\ n = k =>
                           /\ serviceAccounts[n][DefaultAccount] = AccountAfter(n, g - 1)
                           /\ IF trace[f].op \in { "serviceaccounts.get",
                                                   "serviceaccounts.update" }
                              THEN Encodes(secrets[n][name], g, tokens[g])
                              ELSE secrets[n][name] = secrets0[n][name]

\* the second generator has failed in the service account step of the last
\* namespace, whose secret was stale before the run; an earlier namespace
\* was reconciled
C18_Witness ==
    /\ RunOver
    /\ Last(trace).op = "serviceaccounts.update"
    /\ ~Last(trace).ok
    /\ Last(trace).gen = 2
    /\ Last(trace).ns = "team-a"
    /\ secrets0["team-a"][argAWSSecretName] # NoSecret
    /\ secrets["team-a"][argAWSSecretName] # secrets0["team-a"][argAWSSecretName]

(* ------------------------------- C19 ----------------------------------- *)

\* a step leaves every secret that is not one of the two configured names
\* as it is
OtherSecretsKept ==
    \A n \in Namespaces :
        /\ DOMAIN secrets'[n] = DOMAIN secrets[n]
        /\ \A name \in DOMAIN secrets[n] \ SecretNames :
               secrets'[n][name] = secrets[n][name]

\* a step leaves every service account other than DefaultAccount as it is
OtherAccountsKept ==
    \A n \in Namespaces :
        /\ DOMAIN serviceAccounts'[n] = DOMAIN serviceAccounts[n]
        /\ \A a \in DOMAIN serviceAccounts[n] \ { DefaultAccount } :
               serviceAccounts'[n][a] = serviceAccounts[n][a]

\* a step changes of the default service account the image pull secrets
\* only, and the list keeps its length or grows by one
DefaultAccountOnlyGrows ==
    \A n \in Namespaces :
        LET old == serviceAccounts[n][DefaultAccount]
            new == serviceAccounts'[n][DefaultAccount]
        IN  IF old = NoServiceAccount THEN new = NoServiceAccount
            ELSE /\ new # NoServiceAccount
                 /\ [ new EXCEPT !.ImagePullSecrets = old.ImagePullSecrets ] = old
                 /\ Len(new.ImagePullSecrets) \in
                        { Len(old.ImagePullSecrets), Len(old.ImagePullSecrets) + 1 }

\* within a run a list grows by at most one reference per generator, that
\* generator's, and loses none
GrowthPerRun ==
    \A n \in Namespaces :
        sa0[n][DefaultAccount] # NoServiceAccount =>
            /\ \A g \in Generators :
                   LET name == secretGenerators[g].SecretName
                   IN  RefsNamed(serviceAccounts, n, name) - RefsNamed(sa0, n, name)
                           \in { 0, 1 }
            /\ \A name \in RefNames \ SecretNames :
                   RefsNamed(serviceAccounts, n, name) = RefsNamed(sa0, n, name)
            /\ Len(Refs(n)) - Len(sa0[n][DefaultAccount].ImagePullSecrets)
                   \in 0..Len(secretGenerators)

\* C19: the controller writes only the secrets of the two configured names
\* and the service account "default": every other secret and every other
\* service account stays as it is, and of the default service account only
\* the image pull secrets change, the list growing by at most one entry per
\* generator per run and never shrinking.
C19_OnlyOwnObjectsWritten ==
    /\ [][ OtherSecretsKept /\ OtherAccountsKept /\ DefaultAccountOnlyGrows ]_vars
    /\ []GrowthPerRun

\* a run has created both secrets in a namespace and appended both
\* references to its default service account, next to the workload's secret
\* and the second service account
C19_Witness ==
    /\ RunSucceeded
    /\ Len(Refs("team-a")) = Len(sa0["team-a"][DefaultAccount].ImagePullSecrets) + 2
    /\ \A name \in SecretNames :
           secrets0["team-a"][name] = NoSecret /\ secrets["team-a"][name] # NoSecret
    /\ secrets["team-a"][OtherSecretName] = OtherSecret
    /\ serviceAccounts["team-a"][OtherAccountName] = OtherAccount

(* ------------------------------- C13 ----------------------------------- *)

\* longest token and endpoint, in characters, the payloads are built from
MaxChars == 2

\* the characters tokens and endpoints are drawn from: two plain ones and
\* those JSON gives a meaning inside a string
Alphabet == { "a", "n", "\"", "\\", "\n" }

CharSeqs == SeqsUpTo(Alphabet, MaxChars)

\* the string a sequence of characters spells
RECURSIVE Join(_)
Join(cs) == IF cs = << >> THEN "" ELSE Head(cs) \o Join(Tail(cs))

\* the characters of the literal pieces of the two templates and of the
\* field names read back
LiteralChars(s) ==
    CASE s = "{\"" ->
        << "{", "\"" >>
      [] s = "\":{\"username\":\"oauth2accesstoken\",\"password\":\"" ->
        << "\"", ":", "{", "\"", "u", "s", "e", "r", "n", "a", "m", "e",
           "\"", ":", "\"", "o", "a", "u", "t", "h", "2", "a", "c", "c", "e",
           "s", "s", "t", "o", "k", "e", "n", "\"", ",", "\"", "p", "a", "s",
           "s", "w", "o", "r", "d", "\"", ":", "\"" >>
      [] s = "\",\"email\":\"none\"}}" ->
        << "\"", ",", "\"", "e", "m", "a", "i", "l", "\"", ":", "\"", "n",
           "o", "n", "e", "\"", "}", "}" >>
      [] s = "{\"auths\":{\"" ->
        << "{", "\"", "a", "u", "t", "h", "s", "\"", ":", "{", "\"" >>
      [] s = "\":{\"auth\":\"" ->
        << "\"", ":", "{", "\"", "a", "u", "t", "h", "\"", ":", "\"" >>
      [] s = "\",\"email\":\"none\"}}}" ->
        << "\"", ",", "\"", "e", "m", "a", "i", "l", "\"", ":", "\"", "n",
           "o", "n", "e", "\"", "}", "}", "}" >>
      [] s = "password" ->
        << "p", "a", "s", "s", "w", "o", "r", "d" >>
      [] s = "auths" ->
        << "a", "u", "t", "h", "s" >>
      [] s = "auth" ->
        << "a", "u", "t", "h" >>

Literals ==
    { "{\"",
      "\":{\"username\":\"oauth2accesstoken\",\"password\":\"",
      "\",\"email\":\"none\"}}",
      "{\"auths\":{\"",
      "\":{\"auth\":\"",
      "\",\"email\":\"none\"}}}",
      "password",
      "auths",
      "auth" }

\* the characters of a piece of a payload
Chars(s) ==
    IF s \in Literals THEN LiteralChars(s)
    ELSE CHOOSE cs \in CharSeqs : Join(cs) = s

\* the bytes of a payload, piece after piece
RECURSIVE PayloadChars(_)
PayloadChars(value) ==
    IF value = << >> THEN << >>
    ELSE Chars(Head(value)) \o PayloadChars(Tail(value))

\* --- reading JSON back, as encoding/json does for strings and objects ---

ParseError == [ ok |-> FALSE ]

Whitespace == { " ", "\t", "\n", "\r" }

HexDigits == { "0", "1", "2", "3", "4", "5", "6", "7", "8", "9",
               "a", "b", "c", "d", "e", "f", "A", "B", "C", "D", "E", "F" }

\* the backspace character, which a string literal here cannot spell
Backspace == "<backspace>"

\* characters a JSON string cannot hold unescaped
ControlChars == { Backspace, "\f", "\n", "\r", "\t" }

\* the character an escape stands for
Unescape(c) ==
    CASE c = "\"" -> "\""
      [] c = "\\" -> "\\"
      [] c = "/" -> "/"
      [] c = "b" -> Backspace
      [] c = "f" -> "\f"
      [] c = "n" -> "\n"
      [] c = "r" -> "\r"
      [] c = "t" -> "\t"

Escapes == { "\"", "\\", "/", "b", "f", "n", "r", "t" }

RECURSIVE SkipWhitespace(_, _)
SkipWhitespace(cs, i) ==
    IF i <= Len(cs) /\ cs[i] \in Whitespace THEN SkipWhitespace(cs, i + 1) ELSE i

\* the rest of a string whose opening quote has been read: up to the next
\* quote that is not escaped; a raw control character is an error
RECURSIVE ScanString(_, _, _)
ScanString(cs, i, acc) ==
    IF i > Len(cs) THEN ParseError
    ELSE IF cs[i] = "\""
    THEN [ ok |-> TRUE, val |-> [ kind |-> "string", chars |-> acc ], next |-> i + 1 ]
    ELSE IF cs[i] = "\\"
    THEN IF i + 1 > Len(cs) THEN ParseError
         ELSE IF cs[i + 1] \in Escapes
         THEN ScanString(cs, i + 2, Append(acc, Unescape(cs[i + 1])))
         ELSE IF /\ cs[i + 1] = "u"
                 /\ i + 5 <= Len(cs)
                 /\ \A k \in 2..5 : cs[i + k] \in HexDigits
         THEN ScanString(cs, i + 6,
                         Append(acc, Join(<< "\\u", cs[i + 2], cs[i + 3],
                                             cs[i + 4], cs[i + 5] >>)))
         ELSE ParseError
    ELSE IF cs[i] \in ControlChars THEN ParseError
    ELSE ScanString(cs, i + 1, Append(acc, cs[i]))

RECURSIVE ParseValue(_, _)
RECURSIVE ParseMembers(_, _, _)

\* the members of an object whose opening brace has been read
ParseMembers(cs, i, acc) ==
    LET j == SkipWhitespace(cs, i)
    IN  IF j > Len(cs) \/ cs[j] # "\"" THEN ParseError
        ELSE LET key == ScanString(cs, j + 1, << >>)
             IN  IF ~key.ok THEN ParseError
                 ELSE LET c == SkipWhitespace(cs, key.next)
                      IN  IF c > Len(cs) \/ cs[c] # ":" THEN ParseError
                          ELSE LET v == ParseValue(cs, SkipWhitespace(cs, c + 1))
                               IN  IF ~v.ok THEN ParseError
                                   ELSE LET e == SkipWhitespace(cs, v.next)
                                            all == Append(acc, [ key |-> key.val.chars,
                                                                 val |-> v.val ])
                                        IN  IF e > Len(cs) THEN ParseError
                                            ELSE IF cs[e] = ","
                                            THEN ParseMembers(cs, e + 1, all)
                                            ELSE IF cs[e] = "}"
                                            THEN [ ok |-> TRUE,
                                                   val |-> [ kind |-> "object",
                                                             members |-> all ],
                                                   next |-> e + 1 ]
                                            ELSE ParseError

\* a value: a string or an object (the templates hold nothing else)
ParseValue(cs, i) ==
    IF i > Len(cs) THEN ParseError
    ELSE IF cs[i] = "\"" THEN ScanString(cs, i + 1, << >>)
    ELSE IF cs[i] = "{"
    THEN LET j == SkipWhitespace(cs, i + 1)
         IN  IF j <= Len(cs) /\ cs[j] = "}"
             THEN [ ok |-> TRUE, val |-> [ kind |-> "object", members |-> << >> ],
                    next |-> j + 1 ]
             ELSE ParseMembers(cs, i + 1, << >>)
    ELSE ParseError

\* json.Unmarshal of a whole document
ParseJSON(cs) ==
    LET r == ParseValue(cs, SkipWhitespace(cs, 1))
    IN  IF r.ok /\ SkipWhitespace(cs, r.next) = Len(cs) + 1 THEN r ELSE ParseError

\* the keys of an object read into a map
Keys(v) == { v.members[i].key : i \in 1..Len(v.members) }

\* the value of a key of an object read into a map: the last one given
Lookup(v, key) ==
    LET is == { i \in 1..Len(v.members) : v.members[i].key = key }
    IN  v.members[CHOOSE i \in is : \A k \in is : k <= i].val

HasObject(v, key) ==
    /\ v.kind = "object"
    /\ key \in Keys(v)
    /\ Lookup(v, key).kind = "object"

HasString(v, key, chars) ==
    /\ v.kind = "object"
    /\ key \in Keys(v)
    /\ Lookup(v, key) = [ kind |-> "string", chars |-> chars ]

\* --- generateSecretObj on its own ---

\* the function is about to be applied to the inputs drawn
InitMaterialize ==
    /\ inputs \in [ token : CharSeqs, endpoint : CharSeqs, isJSONCfg : BOOLEAN ]
    /\ secrets = [ n \in Namespaces |-> ClusterSecrets(NoRegistrySecrets) ]
    /\ serviceAccounts = [ n \in Namespaces |-> ClusterAccounts(NewDefaultAccount) ]
    /\ tick = 0
    /\ pc = "materialize"
    /\ runKind = "initial"
    /\ NoLocals
    /\ err = FALSE
    /\ trace = << >>
    /\ tokens = [ g \in Generators |-> NoToken ]
    /\ secrets0 = secrets
    /\ sa0 = serviceAccounts
    /\ lastRec = [ n \in Namespaces |-> NoRec ]
    /\ lost = "none"

\* newSecret := generateSecretObj(token, endpoint, isJSONCfg, secretName)
Materialize ==
    /\ pc = "materialize"
    /\ newSecret' = generateSecretObj(Join(inputs.token), Join(inputs.endpoint),
                                      inputs.isJSONCfg,
                                      IF inputs.isJSONCfg THEN argAWSSecretName
                                      ELSE argGCRSecretName)
    /\ pc' = "materialized"
    /\ UNCHANGED << store, tick, runKind, aux, gi, ni, namespaces, getErr,
                    serviceAccount, err, history >>

NextMaterialize == Materialize

SpecMaterialize == InitMaterialize /\ [][NextMaterialize]_vars

\* a token or endpoint that needs no escaping inside a JSON string
Plain(cs) == \A i \in 1..Len(cs) : cs[i] \notin { "\"", "\\", "\n" }

Materialized == pc = "materialized"

\* the payload read back gives the endpoint and the token
ReadsBack ==
    LET parsed == ParseJSON(PayloadChars(newSecret.Data.value))
    IN  /\ parsed.ok
        /\ IF inputs.isJSONCfg
           THEN /\ HasObject(parsed.val, Chars("auths"))
                /\ HasObject(Lookup(parsed.val, Chars("auths")), inputs.endpoint)
                /\ HasString(Lookup(Lookup(parsed.val, Chars("auths")),
                                    inputs.endpoint),
                             Chars("auth"), inputs.token)
           ELSE /\ Keys(parsed.val) = { inputs.endpoint }
                /\ HasObject(parsed.val, inputs.endpoint)
                /\ HasString(Lookup(parsed.val, inputs.endpoint),
                             Chars("password"), inputs.token)

\* C13: round trip of the materialization: for every token and endpoint
\* that need no escaping, the dockercfg payload parses as JSON to a map with
\* the endpoint as its one key, whose password is the token, and the
\* dockerconfigjson payload parses to an object whose auths.<endpoint>.auth
\* is the token; the bytes parsed are those of the payload.
C13_PayloadReadsBack ==
    Materialized =>
        /\ Join(PayloadChars(newSecret.Data.value))
               = Join(newSecret.Data.value)
        /\ (Plain(inputs.token) /\ Plain(inputs.endpoint)) => ReadsBack

\* a token or an endpoint with a quote, a backslash or a control character
\* is written into the payload as it is, and the payload does not read back
C13_UnescapedDoesNotReadBack ==
    (Materialized /\ ~(Plain(inputs.token) /\ Plain(inputs.endpoint))) => ~ReadsBack

\* a payload of each format has been made of a plain token and endpoint of
\* full length and read back
C13_Witness ==
    /\ Materialized
    /\ inputs.isJSONCfg
    /\ inputs.token = << "a", "n" >>
    /\ inputs.endpoint = << "n", "a" >>
    /\ ReadsBack

(* ------------------------------- C15 ----------------------------------- *)

\* the store calls of process() that may fail in a run
StoreOps ==
    { "secrets.get", "secrets.create", "secrets.update",
      "serviceaccounts.get", "serviceaccounts.update" }

StoreCalls ==
    [ gen : Generators, ns : { "" }, op : { "list" } ] \cup
    [ gen : Generators, ns : UserNamespaces, op : StoreOps ]

\* the calls of a run that fail on the side of the store: none or one
FailurePatterns == { {} } \cup { { c } : c \in StoreCalls }

\* answers of the providers, one of each outcome
AnswersOf(fxn) ==
    IF fxn = "getGCRAuthorizationKey"
    THEN { resp \in GCRResponses :
             /\ ~resp.tokenErr /\ resp.Valid /\ resp.Type = "Bearer"
             /\ resp.AccessToken = "tokenA" }
    ELSE { resp \in ECRResponses :
             \A i \in 1..Len(resp.AuthorizationData) :
                 resp.AuthorizationData[i].AuthorizationToken = "tokenB" }

Fails(in, g, n, op) == [ gen |-> g, ns |-> n, op |-> op ] \in in.fails

\* the namespace loop of process() from the i-th namespace on, for
\* generator g and its secret, on the store st
RECURSIVE RunNamespaces(_, _, _, _, _)
RunNamespaces(g, secret, i, st, in) ==
    IF i > Len(NamespaceList) THEN st
    ELSE LET n == NamespaceList[i]
             name == secretGenerators[g].SecretName
         IN  IF SkipNamespace(n) THEN RunNamespaces(g, secret, i + 1, st, in)
             ELSE LET get == SecretsGet(st.secrets, n, name, Fails(in, g, n, "secrets.get"))
                      put == IF get.err
                             THEN SecretsCreate(st.secrets, n, secret,
                                                Fails(in, g, n, "secrets.create"))
                             ELSE SecretsUpdate(st.secrets, n, secret,
                                                Fails(in, g, n, "secrets.update"))
                      sa == ServiceAccountsGet(st.serviceAccounts, n, DefaultAccount,
                                               Fails(in, g, n, "serviceaccounts.get"))
                      obj == [ sa.obj EXCEPT !.ImagePullSecrets =
                                   UpsertImagePullSecret(@, name) ]
                      upd == ServiceAccountsUpdate(st.serviceAccounts, n, obj,
                                                   Fails(in, g, n, "serviceaccounts.update"))
                  IN  IF put.err THEN [ st EXCEPT !.err = TRUE ]
                      ELSE IF sa.err
                      THEN [ st EXCEPT !.secrets = put.store, !.err = TRUE ]
                      ELSE IF upd.err
                      THEN [ st EXCEPT !.secrets = put.store, !.err = TRUE ]
                      ELSE RunNamespaces(g, secret, i + 1,
                                         [ st EXCEPT !.secrets = put.store,
                                                     !.serviceAccounts = upd.store ],
                                         in)

\* the generator loop of process() from the k-th generator of order on
RECURSIVE RunGenerators(_, _, _, _)
RunGenerators(order, k, st, in) ==
    IF k > Len(order) THEN st
    ELSE LET g == order[k]
             r == TokenGenFxn(secretGenerators[g].TokenGenFxn, in.answers[g])
             secret == generateSecretObj(r.token.AccessToken, r.token.Endpoint,
                                         secretGenerators[g].IsJSONCfg,
                                         secretGenerators[g].SecretName)
         IN  IF r.panic THEN [ st EXCEPT !.panic = TRUE ]
             ELSE IF FetchFailed(r) THEN [ st EXCEPT !.err = TRUE ]
             ELSE IF Fails(in, g, "", "list") THEN [ st EXCEPT !.err = TRUE ]
             ELSE LET after == RunNamespaces(g, secret, 1, st, in)
                  IN  IF after.err THEN after
                      ELSE RunGenerators(order, k + 1, after, in)

\* a whole run of process() with the generators taken in the given order
RunProcess(order, secs, sas, in) ==
    RunGenerators(order, 1,
                  [ secrets |-> secs, serviceAccounts |-> sas,
                    err |-> FALSE, panic |-> FALSE ],
                  in)

\* the order of the generator list, and the opposite one
ListOrder == [ k \in Generators |-> k ]

OppositeOrder == [ k \in Generators |-> Len(secretGenerators) + 1 - k ]

\* a cluster, the answers of the providers and the failures of the store
\* that a run is going to meet
InitOrder ==
    /\ \E secs \in [ UserNamespaces -> InitialSecrets ],
          sas \in [ UserNamespaces -> InitialServiceAccounts ] :
          /\ Preexisting(secs, sas) <= MaxPreexisting
          /\ secrets = [ n \in Namespaces |->
                           IF n \in UserNamespaces THEN ClusterSecrets(secs[n])
                           ELSE ClusterSecrets(NoRegistrySecrets) ]
          /\ serviceAccounts = [ n \in Namespaces |->
                           IF n \in UserNamespaces THEN ClusterAccounts(sas[n])
                           ELSE ClusterAccounts(NewDefaultAccount) ]
    /\ inputs \in [ answers : { a \in [ Generators -> GCRResponses \cup ECRResponses ] :
                                  \A g \in Generators :
                                      a[g] \in AnswersOf(secretGenerators[g].TokenGenFxn) },
                    fails : FailurePatterns ]
    /\ tick = 0
    /\ pc = "start"
    /\ runKind = "initial"
    /\ NoLocals
    /\ err = FALSE
    /\ trace = << >>
    /\ tokens = [ g \in Generators |-> NoToken ]
    /\ secrets0 = secrets
    /\ sa0 = serviceAccounts
    /\ lastRec = [ n \in Namespaces |-> NoRec ]
    /\ lost = "none"

\* c.process() as one step
ProcessOnce ==
    /\ pc = "start"
    /\ LET r == RunProcess(ListOrder, secrets, serviceAccounts, inputs)
       IN  /\ secrets' = r.secrets
           /\ serviceAccounts' = r.serviceAccounts
           /\ err' = r.err
           /\ pc' = IF r.panic THEN "panicked" ELSE "returned"
    /\ UNCHANGED << tick, runKind, aux, locals, history >>

NextOrder == ProcessOnce

SpecOrder == InitOrder /\ [][NextOrder]_vars

\* the run is over; Opposite is what it would have left with the generators
\* in the opposite order
OrderCompared == pc \in { "returned", "panicked" } /\ inputs # NoInputs

Opposite == RunProcess(OppositeOrder, secrets0, sa0, inputs)

\* C15 as stated: for every initial store and every pattern of failures the
\* store a run leaves is the one the opposite order of the generators would
\* have left.
C15_OrderNotObservable ==
    OrderCompared =>
        /\ secrets = Opposite.secrets
        /\ serviceAccounts = Opposite.serviceAccounts

\* the references a list was given beyond its first k entries, as a bag
Appended(list, k) ==
    [ name \in SecretNames |->
        Cardinality({ i \in (k + 1)..Len(list) : list[i].Name = name }) ]

\* C15 (amended): a run returns success in one order of the generators
\* exactly when it does in the other; the two successful runs leave the same
\* secrets, and the same service accounts but for the order of the
\* references appended in the run.
C15_OrderShowsInAppendedReferences ==
    OrderCompared =>
        /\ (pc = "returned" /\ ~err) <=> (~Opposite.err /\ ~Opposite.panic)
        /\ (pc = "returned" /\ ~err) =>
               /\ secrets = Opposite.secrets
               /\ \A n \in Namespaces : \A a \in AccountNames :
                      LET here == serviceAccounts[n][a]
                          there == Opposite.serviceAccounts[n][a]
                          before == sa0[n][a]
                      IN  IF before = NoServiceAccount
                          THEN here = there
                          ELSE LET k == Len(before.ImagePullSecrets)
                               IN  /\ [ here EXCEPT !.ImagePullSecrets = << >> ]
                                          = [ there EXCEPT !.ImagePullSecrets = << >> ]
                                   /\ SubSeq(here.ImagePullSecrets, 1, k)
                                          = SubSeq(there.ImagePullSecrets, 1, k)
                                   /\ Appended(here.ImagePullSecrets, k)
                                          = Appended(there.ImagePullSecrets, k)

\* a successful run has appended both references to a list, which the
\* opposite order would have appended the other way round
C15_Witness ==
    /\ OrderCompared
    /\ pc = "returned"
    /\ ~err
    /\ Len(Refs("default")) = Len(sa0["default"][DefaultAccount].ImagePullSecrets) + 2
    /\ Refs("default") # Opposite.serviceAccounts["default"][DefaultAccount].ImagePullSecrets

====
